---- MODULE Spec2Model ----
(***************************************************************************)
(* A model of the SnapOpinion backend: the Express route handlers of       *)
(* routes/auth.js and routes/posts.js over the Mongoose models User and    *)
(* Post.  Every handler is an async function; each `await` of a store call *)
(* is a point where another request's handler may run, so a handler is a   *)
(* sequence of atomic steps, one per awaited store operation, each step    *)
(* carrying the synchronous code that follows the await.                   *)
(*                                                                         *)
(* Strings are sequences of character codes, so that trimming, lower-      *)
(* casing and splitting are computed and not assumed.                      *)
(*                                                                         *)
(* doc.save() is Mongoose's: it sends only the modified paths.  An array   *)
(* changed by push() is sent as an atomic $push together with $inc __v and *)
(* no condition on __v; an array that was assigned (arr = arr.filter(..))  *)
(* is sent as $set of the whole array with the condition __v = the version *)
(* that was read, and $inc __v; when no document matches that condition    *)
(* save() rejects with VersionError.                                       *)
(***************************************************************************)
EXTENDS Integers, Sequences, FiniteSets, TLC

VARIABLES users, areq, astarted, posts, creq, cstarted, nextId, served

vars == <<users, areq, astarted, posts, creq, cstarted, nextId, served>>
avars == <<users, areq, astarted>>
cvars == <<posts, creq, cstarted, nextId, served>>

\* The request handlers that may be in flight at the same time.
Reqs == {"r1", "r2"}

\* Bounds on the number of requests started in a behaviour.
MaxAccountRequests == 5
MaxContentRequests == 4
MaxFeedRequests == 3

(***************************************************************************)
(* Strings                                                                 *)
(***************************************************************************)
SPACE == 32
COMMA == 44
AT == 64

Range(s) == {s[i] : i \in DOMAIN s}

NoDup(s) == \A i, j \in DOMAIN s : s[i] = s[j] => i = j

\* String.prototype.toLowerCase on ASCII letters.
Lower(s) == [i \in DOMAIN s |-> IF s[i] \in 65..90 THEN s[i] + 32 ELSE s[i]]

RECURSIVE TrimLeft(_)
TrimLeft(s) == IF s # <<>> /\ Head(s) = SPACE THEN TrimLeft(Tail(s)) ELSE s

RECURSIVE TrimRight(_)
TrimRight(s) ==
    IF s # <<>> /\ s[Len(s)] = SPACE THEN TrimRight(SubSeq(s, 1, Len(s) - 1)) ELSE s

\* String.prototype.trim
Trim(s) == TrimRight(TrimLeft(s))

\* arr.filter(x => !x.equals(id))
RECURSIVE Without(_, _)
Without(arr, id) ==
    IF arr = <<>> THEN <<>>
    ELSE IF Head(arr) = id THEN Without(Tail(arr), id)
    ELSE <<Head(arr)>> \o Without(Tail(arr), id)

\* arr.some(x => x.equals(id))
Some(arr, id) == \E i \in DOMAIN arr : arr[i] = id

(***************************************************************************)
(* Mongoose save() of one modified array path                              *)
(***************************************************************************)
\* A push that writes the element at the front.
PushSaveFront(doc, path, x) == [doc EXCEPT ![path] = <<x>> \o @, !.v = @ + 1]

\* $push of x on `path`, $inc __v.
PushSave(doc, path, x) == [doc EXCEPT ![path] = Append(@, x), !.v = @ + 1]

\* A save that sends no condition on __v.
NoVersionCheck(doc, ver) == TRUE

\* The condition of a $set of an array: the stored __v is the one read.
VersionMatches(doc, ver) == doc.v = ver

\* $set of `path` to arr and $inc __v where __v = ver; no match changes nothing.
SetSave(doc, path, arr, ver) ==
    IF VersionMatches(doc, ver) THEN [doc EXCEPT ![path] = arr, !.v = @ + 1] ELSE doc

\* Whether save() of a toggled array resolves: an assigned array (the
\* filter) needs the version that was read, a pushed one does not.
SaveArrayOk(stored, assigned, ver) == assigned => VersionMatches(stored, ver)

\* A save that writes the whole loaded document back.
SaveWholeDocument(stored, loaded, path, assigned, x) == [loaded EXCEPT !.v = @ + 1]

\* What save() of a loaded document whose array `path` was changed in
\* memory does to the stored document: an assigned array (the filter) is a
\* versioned $set of that array, a pushed element x an unconditioned $push;
\* no other path of the loaded document is sent.
SaveArray(stored, loaded, path, assigned, x) ==
    IF assigned THEN SetSave(stored, path, loaded[path], loaded.v)
    ELSE PushSave(stored, path, x)

(***************************************************************************)
(* Account store: models/User.js, routes/auth.js, the follow route         *)
(***************************************************************************)
S_abb == <<97, 98, 98>>
S_Abb == <<65, 98, 98>>
S_abb_sp == <<SPACE, 97, 98, 98>>
S_a_sp == <<SPACE, SPACE, 97>>
S_ab == <<97, 98>>
E_a == <<97, AT, 120>>
E_A == <<65, AT, 120>>
E_b == <<98, AT, 120>>
E_bad == <<97, 120>>

Usernames == {S_abb, S_Abb, S_abb_sp, S_a_sp, S_ab}
Emails == {E_a, E_A, E_b, E_bad}
PasswordLens == {5, 6}

\* express-validator isLength({min})
IsLengthMin(s, n) == Len(s) >= n

\* express-validator isEmail, as far as the modelled addresses go: one '@'
\* with text on both sides and no blank.
IsEmail(s) ==
    /\ Cardinality({i \in DOMAIN s : s[i] = AT}) = 1
    /\ s[1] # AT /\ s[Len(s)] # AT
    /\ SPACE \notin Range(s)

\* UserSchema.username: trim.  Setters also run when a query filter is cast.
CastUsername(s) == Trim(s)

\* UserSchema.email: lowercase, trim.
CastEmail(s) == Trim(Lower(s))

\* UserSchema.username minlength.
UsernameMinLength == 3
PasswordMinLength == 6

AIdle == [op |-> "none", pc |-> "idle", username |-> <<>>, email |-> <<>>,
          self |-> 0, target |-> 0, me |-> [v |-> 0], toFollow |-> [v |-> 0],
          alreadyFollowing |-> FALSE, resp |-> [status |-> 0]]

AFree(r) == areq[r].pc \in {"idle", "done"}

AInit == users = <<>> /\ areq = [r \in Reqs |-> AIdle] /\ astarted = 0

\* POST /register up to the await of User.findOne.
RegisterStart(r, username, email, pwLen) ==
    /\ AFree(r)
    /\ astarted < MaxAccountRequests
    /\ astarted' = astarted + 1
    /\ IF IsLengthMin(username, UsernameMinLength) /\ IsEmail(email)
          /\ pwLen >= PasswordMinLength
       THEN areq' = [areq EXCEPT ![r] = [AIdle EXCEPT !.op = "register",
                        !.pc = "findOne", !.username = username, !.email = email]]
       ELSE areq' = [areq EXCEPT ![r] = [AIdle EXCEPT !.op = "register",
                        !.pc = "done", !.resp = [status |-> 400, error |-> "validation"]]]
    /\ UNCHANGED <<users, cvars>>

\* User.findOne({ $or: [{ username }, { email }] })
FindOneUser(username, email) ==
    \E i \in DOMAIN users :
        \/ users[i].username = CastUsername(username)
        \/ users[i].email = CastEmail(email)

\* The findOne resolves; `if (exist) return 400`; then the salt and the hash.
RegisterFindOne(r) ==
    /\ areq[r].op = "register" /\ areq[r].pc = "findOne"
    /\ IF FindOneUser(areq[r].username, areq[r].email)
       THEN areq' = [areq EXCEPT ![r].pc = "done",
                        ![r].resp = [status |-> 400, error |-> "in use"]]
       ELSE areq' = [areq EXCEPT ![r].pc = "create"]
    /\ UNCHANGED <<users, astarted, cvars>>

\* The unique indexes of username and email (unique: true).
UniqueIndexAllows(doc) ==
    \A i \in DOMAIN users :
        users[i].username # doc.username /\ users[i].email # doc.email

\* User.create: cast, validate (minlength), insert under the unique indexes.
RegisterCreate(r) ==
    /\ areq[r].op = "register" /\ areq[r].pc = "create"
    /\ LET doc == [username |-> CastUsername(areq[r].username),
                   email |-> CastEmail(areq[r].email),
                   followers |-> <<>>, following |-> <<>>, v |-> 0]
       IN IF IsLengthMin(doc.username, UsernameMinLength) /\ UniqueIndexAllows(doc)
          THEN /\ users' = Append(users, doc)
               /\ areq' = [areq EXCEPT ![r].pc = "done",
                              ![r].resp = [status |-> 200, id |-> Len(users) + 1]]
          ELSE /\ users' = users
               /\ areq' = [areq EXCEPT ![r].pc = "done",
                              ![r].resp = [status |-> 500, error |-> "Server error"]]
    /\ UNCHANGED <<astarted, cvars>>

\* POST /user/:userId/follow up to the await of User.findById(userId).  The
\* auth middleware resolved req.user to a stored user.
FollowStart(r, self, target) ==
    /\ AFree(r)
    /\ astarted < MaxAccountRequests
    /\ self \in DOMAIN users
    /\ astarted' = astarted + 1
    /\ areq' = [areq EXCEPT ![r] = [AIdle EXCEPT !.op = "follow",
                   !.pc = "findTarget", !.self = self, !.target = target]]
    /\ UNCHANGED <<users, cvars>>

\* toFollow = await User.findById(req.params.userId)
FollowFindTarget(r) ==
    /\ areq[r].op = "follow" /\ areq[r].pc = "findTarget"
    /\ IF areq[r].target \in DOMAIN users
       THEN areq' = [areq EXCEPT ![r].pc = "findMe",
                        ![r].toFollow = users[areq[r].target]]
       ELSE areq' = [areq EXCEPT ![r].pc = "done",
                        ![r].resp = [status |-> 404, error |-> "User not found"]]
    /\ UNCHANGED <<users, astarted, cvars>>

\* me = await User.findById(req.user._id), then the in-memory toggle.
FollowFindMe(r) ==
    /\ areq[r].op = "follow" /\ areq[r].pc = "findMe"
    /\ LET me == users[areq[r].self]
           already == Some(me.following, areq[r].target)
       IN areq' = [areq EXCEPT ![r].pc = "saveMe",
                     ![r].alreadyFollowing = already,
                     ![r].me = [me EXCEPT !.following =
                                   IF already THEN Without(@, areq[r].target)
                                   ELSE Append(@, areq[r].target)],
                     ![r].toFollow.followers =
                         IF already THEN Without(@, areq[r].self)
                         ELSE Append(@, areq[r].self)]
    /\ UNCHANGED <<users, astarted, cvars>>

\* await me.save()
FollowSaveMe(r) ==
    /\ areq[r].op = "follow" /\ areq[r].pc = "saveMe"
    /\ LET q == areq[r]
       IN IF SaveArrayOk(users[q.self], q.alreadyFollowing, q.me.v)
          THEN /\ users' = [users EXCEPT ![q.self] =
                               SaveArray(@, q.me, "following", q.alreadyFollowing,
                                         q.target)]
               /\ areq' = [areq EXCEPT ![r].pc = "saveTarget"]
          ELSE /\ users' = users
               /\ areq' = [areq EXCEPT ![r].pc = "done",
                              ![r].resp = [status |-> 500,
                                           error |-> "Failed to follow/unfollow"]]
    /\ UNCHANGED <<astarted, cvars>>

\* await toFollow.save(), then the response from the documents in memory.
FollowSaveTarget(r) ==
    /\ areq[r].op = "follow" /\ areq[r].pc = "saveTarget"
    /\ LET q == areq[r]
       IN IF SaveArrayOk(users[q.target], q.alreadyFollowing, q.toFollow.v)
          THEN /\ users' = [users EXCEPT ![q.target] =
                               SaveArray(@, q.toFollow, "followers",
                                         q.alreadyFollowing, q.self)]
               /\ areq' = [areq EXCEPT ![r].pc = "done",
                              ![r].resp = [status |-> 200,
                                  followingCount |-> Len(q.me.following),
                                  followersCount |-> Len(q.toFollow.followers),
                                  following |-> ~q.alreadyFollowing]]
          ELSE /\ users' = users
               /\ areq' = [areq EXCEPT ![r].pc = "done",
                              ![r].resp = [status |-> 500,
                                           error |-> "Failed to follow/unfollow"]]
    /\ UNCHANGED <<astarted, cvars>>

AccountStart(r) ==
    \/ \E username \in Usernames, email \in Emails, pwLen \in PasswordLens :
           RegisterStart(r, username, email, pwLen)
    \/ \E self \in DOMAIN users, target \in 1..(Len(users) + 1) :
           FollowStart(r, self, target)

AccountStep(r) ==
    \/ RegisterFindOne(r)
    \/ RegisterCreate(r)
    \/ FollowFindTarget(r)
    \/ FollowFindMe(r)
    \/ FollowSaveMe(r)
    \/ FollowSaveTarget(r)

AccountNext == \E r \in Reqs : AccountStart(r) \/ AccountStep(r)

\* One request at a time: a request starts only when no other is in flight.
AccountNextSeq ==
    \E r \in Reqs : ((\A o \in Reqs : AFree(o)) /\ AccountStart(r)) \/ AccountStep(r)

(***************************************************************************)
(* Content store: models/Post.js and routes/posts.js                       *)
(***************************************************************************)
\* The users the auth middleware resolves tokens to.
UserIds == {1, 2}

T_none == <<>>
T_A == <<65>>
T_b == <<98>>
T_A_b == <<65, COMMA, SPACE, 98>>
T_sp_a == <<SPACE, 97, COMMA>>

\* body('durationSec').isFloat({ gt: 0, lt: 300 })
DurationGt == 0
DurationLt == 300
\* PostSchema.caption maxlength
CaptionMaxLength == 280
\* body('text').isLength({ min: 1, max: 500 })
TextMin == 1
TextMax == 500
\* Math.min(50, Number(req.query.limit || 12))
DefaultLimit == 12
LimitCap == 50

IsSeparator(c) == c = COMMA \/ c = SPACE

\* hashtags.split(/[, ]+/).map(s => s.trim()).filter(Boolean): the maximal
\* runs of characters that are neither a comma nor a blank.
RECURSIVE SplitTags(_, _)
SplitTags(s, cur) ==
    IF s = <<>> THEN (IF cur = <<>> THEN <<>> ELSE <<cur>>)
    ELSE IF IsSeparator(Head(s))
         THEN (IF cur = <<>> THEN <<>> ELSE <<cur>>) \o SplitTags(Tail(s), <<>>)
         ELSE SplitTags(Tail(s), Append(cur, Head(s)))

ParseTags(hashtags) == SplitTags(hashtags, <<>>)

\* PostSchema.hashtags: lowercase, trim (on a stored element and on a filter).
CastTag(t) == Trim(Lower(t))

CastTags(tags) == [i \in DOMAIN tags |-> CastTag(tags[i])]

CIdle == [op |-> "none", pc |-> "idle", uid |-> 0, pid |-> 0, cid |-> 0,
          doc |-> [author |-> 0, hashtags |-> <<>>, durationSec |-> 0, captionLen |-> 0],
          post |-> [v |-> 0], liked |-> FALSE, idx |-> 0,
          page |-> 0, limit |-> 0, hashtag |-> <<>>,
          resp |-> [status |-> 0]]

CFree(r) == creq[r].pc \in {"idle", "done"}

CInit == /\ posts = <<>>
         /\ creq = [r \in Reqs |-> CIdle]
         /\ cstarted = 0
         /\ nextId = 1
         /\ served = <<>>

CBegin(r, max) ==
    /\ CFree(r)
    /\ cstarted < max
    /\ cstarted' = cstarted + 1

CDone(r, resp) == creq' = [creq EXCEPT ![r].pc = "done", ![r].resp = resp]

\* POST / up to the await of Post.create: the validation, the file check,
\* the hashtag parsing.
CreatePostStart(r, max, uid, hasFile, durationSec, captionLen, hashtags) ==
    /\ CBegin(r, max)
    /\ IF ~(durationSec > DurationGt /\ durationSec < DurationLt)
       THEN creq' = [creq EXCEPT ![r] = [CIdle EXCEPT !.op = "createPost",
                        !.pc = "done", !.resp = [status |-> 400, error |-> "validation"]]]
       ELSE IF ~hasFile
       THEN creq' = [creq EXCEPT ![r] = [CIdle EXCEPT !.op = "createPost",
                        !.pc = "done",
                        !.resp = [status |-> 400, error |-> "Video file required"]]]
       ELSE creq' = [creq EXCEPT ![r] = [CIdle EXCEPT !.op = "createPost",
                        !.pc = "create", !.uid = uid,
                        !.doc = [author |-> uid, hashtags |-> ParseTags(hashtags),
                                 durationSec |-> durationSec,
                                 captionLen |-> captionLen]]]
    /\ UNCHANGED <<posts, nextId, served, avars>>

LastCreatedAt == IF posts = <<>> THEN 0 ELSE posts[Len(posts)].createdAt

\* await Post.create(...): the schema's casts and validation, the defaults,
\* the timestamps.  Date.now() has not gone back since the previous post and
\* may be the same millisecond.
CreatePostCreate(r, tick) ==
    /\ creq[r].op = "createPost" /\ creq[r].pc = "create"
    /\ IF creq[r].doc.captionLen > CaptionMaxLength
       THEN /\ CDone(r, [status |-> 500, error |-> "Failed to create post"])
            /\ UNCHANGED <<posts, served>>
       ELSE /\ posts' = Append(posts,
                   [author |-> creq[r].doc.author,
                    hashtags |-> CastTags(creq[r].doc.hashtags),
                    durationSec |-> creq[r].doc.durationSec,
                    createdAt |-> LastCreatedAt + tick,
                    likes |-> <<>>, comments |-> <<>>, views |-> 0, v |-> 0])
            /\ served' = Append(served, 0)
            /\ CDone(r, [status |-> 200, post |-> Len(posts) + 1])
    /\ UNCHANGED <<cstarted, nextId, avars>>

\* GET /:id up to the await of findByIdAndUpdate.
GetPostStart(r, max, pid) ==
    /\ CBegin(r, max)
    /\ creq' = [creq EXCEPT ![r] = [CIdle EXCEPT !.op = "getPost", !.pc = "update",
                   !.pid = pid]]
    /\ UNCHANGED <<posts, nextId, served, avars>>

\* An update that leaves the counter alone.
IncViewsLost(post) == post

\* { $inc: { views: 1 } }
IncViews(post) == [post EXCEPT !.views = @ + 1]

\* Post.findByIdAndUpdate(id, { $inc: { views: 1 } }, { new: true }): one
\* atomic store operation; `served` counts the calls answered with the post.
GetPostUpdate(r) ==
    /\ creq[r].op = "getPost" /\ creq[r].pc = "update"
    /\ IF creq[r].pid \in DOMAIN posts
       THEN /\ posts' = [posts EXCEPT ![creq[r].pid] = IncViews(@)]
            /\ served' = [served EXCEPT ![creq[r].pid] = @ + 1]
            /\ CDone(r, [status |-> 200, views |-> posts'[creq[r].pid].views])
       ELSE /\ CDone(r, [status |-> 404, error |-> "Not found"])
            /\ UNCHANGED <<posts, served>>
    /\ UNCHANGED <<cstarted, nextId, avars>>

\* POST /:id/like up to the await of Post.findById.
LikeStart(r, max, pid, uid) ==
    /\ CBegin(r, max)
    /\ creq' = [creq EXCEPT ![r] = [CIdle EXCEPT !.op = "like", !.pc = "find",
                   !.pid = pid, !.uid = uid]]
    /\ UNCHANGED <<posts, nextId, served, avars>>

\* liked = post.likes.some(..); the filter or the push on the loaded document.
ToggleLocal(likes, uid) ==
    IF Some(likes, uid) THEN Without(likes, uid) ELSE Append(likes, uid)

\* The findById resolves; the toggle in memory.
LikeFind(r) ==
    /\ creq[r].op = "like" /\ creq[r].pc = "find"
    /\ IF creq[r].pid \in DOMAIN posts
       THEN LET post == posts[creq[r].pid]
            IN creq' = [creq EXCEPT ![r].pc = "save",
                          ![r].liked = Some(post.likes, creq[r].uid),
                          ![r].post = [post EXCEPT !.likes =
                                          ToggleLocal(@, creq[r].uid)]]
       ELSE CDone(r, [status |-> 404, error |-> "Not found"])
    /\ UNCHANGED <<posts, cstarted, nextId, served, avars>>

\* await post.save(), then the response from the document in memory.
LikeSave(r) ==
    /\ creq[r].op = "like" /\ creq[r].pc = "save"
    /\ LET q == creq[r]
       IN IF SaveArrayOk(posts[q.pid], q.liked, q.post.v)
          THEN /\ posts' = [posts EXCEPT ![q.pid] =
                               SaveArray(@, q.post, "likes", q.liked, q.uid)]
               /\ CDone(r, [status |-> 200, likesCount |-> Len(q.post.likes),
                            liked |-> ~q.liked])
          ELSE /\ posts' = posts
               /\ CDone(r, [status |-> 500, error |-> "Failed to toggle like"])
    /\ UNCHANGED <<cstarted, nextId, served, avars>>

\* One toggleLike with no other request between its read and its save.
ToggleLikeAlone(stored, uid) ==
    SaveArray(stored, [stored EXCEPT !.likes = ToggleLocal(@, uid)], "likes",
              Some(stored.likes, uid), uid)

\* body('text').isLength({ min: 1, max: 500 })
TextOk(textLen) == textLen >= TextMin /\ textLen <= TextMax

\* POST /:id/comment up to the await of Post.findById.
CommentStart(r, max, pid, uid, textLen) ==
    /\ CBegin(r, max)
    /\ IF TextOk(textLen)
       THEN creq' = [creq EXCEPT ![r] = [CIdle EXCEPT !.op = "comment", !.pc = "find",
                        !.pid = pid, !.uid = uid]]
       ELSE creq' = [creq EXCEPT ![r] = [CIdle EXCEPT !.op = "comment", !.pc = "done",
                        !.resp = [status |-> 400, error |-> "validation"]]]
    /\ UNCHANGED <<posts, nextId, served, avars>>

\* A comment as post.comments.push casts it: its own _id, no replies.
NewComment(cid, uid) == [id |-> cid, author |-> uid, replies |-> <<>>]

\* The findById resolves; post.comments.push(comment) gives the new
\* subdocument its _id and its empty replies.
CommentFind(r) ==
    /\ creq[r].op = "comment" /\ creq[r].pc = "find"
    /\ IF creq[r].pid \in DOMAIN posts
       THEN /\ creq' = [creq EXCEPT ![r].pc = "save", ![r].cid = nextId,
                           ![r].post = [posts[creq[r].pid] EXCEPT !.comments =
                                           Append(@, NewComment(nextId, creq[r].uid))]]
            /\ nextId' = nextId + 1
       ELSE /\ CDone(r, [status |-> 404, error |-> "Not found"])
            /\ nextId' = nextId
    /\ UNCHANGED <<posts, cstarted, served, avars>>

\* await post.save(): $push of the comment; the response is the last
\* comment of the document in memory.
CommentSave(r) ==
    /\ creq[r].op = "comment" /\ creq[r].pc = "save"
    /\ LET q == creq[r]
           comment == q.post.comments[Len(q.post.comments)]
       IN /\ posts' = [posts EXCEPT ![q.pid] =
                          SaveArray(@, q.post, "comments", FALSE, comment)]
          /\ CDone(r, [status |-> 200, comment |-> comment.id])
    /\ UNCHANGED <<cstarted, nextId, served, avars>>

\* POST /:id/comment/:commentId/reply up to the await of Post.findById.
ReplyStart(r, max, pid, cid, uid, textLen) ==
    /\ CBegin(r, max)
    /\ IF TextOk(textLen)
       THEN creq' = [creq EXCEPT ![r] = [CIdle EXCEPT !.op = "reply", !.pc = "find",
                        !.pid = pid, !.cid = cid, !.uid = uid]]
       ELSE creq' = [creq EXCEPT ![r] = [CIdle EXCEPT !.op = "reply", !.pc = "done",
                        !.resp = [status |-> 400, error |-> "validation"]]]
    /\ UNCHANGED <<posts, nextId, served, avars>>

\* post.comments.id(commentId): the position of the comment with that _id,
\* 0 when there is none.
CommentIndex(comments, cid) ==
    IF \E i \in DOMAIN comments : comments[i].id = cid
    THEN CHOOSE i \in DOMAIN comments : comments[i].id = cid
    ELSE 0

\* The findById resolves; the comment is looked up in the loaded post.
ReplyFind(r) ==
    /\ creq[r].op = "reply" /\ creq[r].pc = "find"
    /\ IF creq[r].pid \notin DOMAIN posts
       THEN CDone(r, [status |-> 404, error |-> "Not found"])
       ELSE LET post == posts[creq[r].pid]
                i == CommentIndex(post.comments, creq[r].cid)
            IN IF i = 0
               THEN CDone(r, [status |-> 404, error |-> "Comment not found"])
               ELSE creq' = [creq EXCEPT ![r].pc = "save", ![r].idx = i,
                               ![r].post = [post EXCEPT !.comments[i].replies =
                                               Append(@, [author |-> creq[r].uid])]]
    /\ UNCHANGED <<posts, cstarted, nextId, served, avars>>

\* $push of the reply on comments.<idx>.replies, $inc __v.
PushReply(stored, idx, reply) ==
    [stored EXCEPT !.comments[idx].replies = Append(@, reply), !.v = @ + 1]

\* await post.save().  Mongoose releases differ on a push below a document
\* array: some send it with the condition on __v, some without.
ReplySave(r, versioned) ==
    /\ creq[r].op = "reply" /\ creq[r].pc = "save"
    /\ LET q == creq[r]
       IN IF versioned /\ ~VersionMatches(posts[q.pid], q.post.v)
          THEN /\ posts' = posts
               /\ CDone(r, [status |-> 500, error |-> "Failed to add reply"])
          ELSE LET replies == q.post.comments[q.idx].replies
                   reply == replies[Len(replies)]
               IN /\ posts' = [posts EXCEPT ![q.pid] = PushReply(@, q.idx, reply)]
                  /\ CDone(r, [status |-> 200, reply |-> reply])
    /\ UNCHANGED <<cstarted, nextId, served, avars>>

\* A query parameter: absent, or a numeric string.
NoParam == [given |-> FALSE, n |-> 0]
Param(n) == [given |-> TRUE, n |-> n]

Max2(a, b) == IF a >= b THEN a ELSE b
Min2(a, b) == IF a <= b THEN a ELSE b

\* Math.max(0, Number(req.query.page || 0))
PageOf(q) == Max2(0, IF q.given THEN q.n ELSE 0)

\* Math.min(50, Number(req.query.limit || 12))
LimitOf(q) == Min2(LimitCap, IF q.given THEN q.n ELSE DefaultLimit)

\* GET / up to the await of the find: the page, the limit and the filter.
ListFeedStart(r, max, page, limit, hashtag) ==
    /\ CBegin(r, max)
    /\ creq' = [creq EXCEPT ![r] = [CIdle EXCEPT !.op = "listFeed", !.pc = "find",
                   !.page = PageOf(page), !.limit = LimitOf(limit),
                   !.hashtag = IF hashtag # <<>> THEN Lower(hashtag) ELSE <<>>]]
    /\ UNCHANGED <<posts, nextId, served, avars>>

\* filter.hashtags = hashtag.toLowerCase(): the posts whose hashtags hold it.
Matches(post, hashtag) ==
    hashtag = <<>> \/ \E i \in DOMAIN post.hashtags : post.hashtags[i] = CastTag(hashtag)

Matching(hashtag) == {p \in DOMAIN posts : Matches(posts[p], hashtag)}

\* sort({ createdAt: -1 }): the store fixes no order among equal createdAt.
FeedOrders(ids) ==
    {s \in [1..Cardinality(ids) -> ids] :
        /\ \A i, j \in DOMAIN s : s[i] = s[j] => i = j
        /\ \A i, j \in DOMAIN s : i < j => posts[s[i]].createdAt >= posts[s[j]].createdAt}

\* skip(n)
Skip(s, n) == SubSeq(s, n + 1, Len(s))

\* limit(n): the store reads a limit of 0 as no limit.
Limit(s, n) == IF n = 0 THEN s ELSE SubSeq(s, 1, Min2(n, Len(s)))

\* The find resolves; res.json({ posts, page, limit }).  `at` records how
\* many posts were stored when the query ran.
ListFeedFind(r, order) ==
    /\ creq[r].op = "listFeed" /\ creq[r].pc = "find"
    /\ order \in FeedOrders(Matching(creq[r].hashtag))
    /\ CDone(r, [status |-> 200,
                 posts |-> Limit(Skip(order, creq[r].page * creq[r].limit), creq[r].limit),
                 page |-> creq[r].page, limit |-> creq[r].limit, at |-> Len(posts)])
    /\ UNCHANGED <<posts, cstarted, nextId, served, avars>>

Durations == {45, 300}
CaptionLens == {280, 281}
TextLens == {0, 500, 501}
TagInputs == {T_none, T_A_b, T_sp_a}
FilterInputs == {T_none, T_A, T_b}
PageInputs == {NoParam, Param(-1), Param(1)}
LimitInputs == {NoParam, Param(0), Param(1), Param(60)}

PostIdInputs == 1..(Len(posts) + 1)
CommentIdInputs == 0..(nextId - 1)

ContentNext ==
    \E r \in Reqs :
        \/ \E hasFile \in BOOLEAN, d \in Durations, c \in CaptionLens :
               CreatePostStart(r, MaxContentRequests, 1, hasFile, d, c, T_none)
        \/ CreatePostCreate(r, 1)
        \/ \E pid \in PostIdInputs : GetPostStart(r, MaxContentRequests, pid)
        \/ GetPostUpdate(r)
        \/ \E pid \in PostIdInputs, uid \in UserIds :
               LikeStart(r, MaxContentRequests, pid, uid)
        \/ LikeFind(r)
        \/ LikeSave(r)
        \/ \E pid \in PostIdInputs, uid \in UserIds, t \in TextLens :
               CommentStart(r, MaxContentRequests, pid, uid, t)
        \/ CommentFind(r)
        \/ CommentSave(r)
        \/ \E pid \in PostIdInputs, cid \in CommentIdInputs, uid \in UserIds,
              t \in TextLens :
               ReplyStart(r, MaxContentRequests, pid, cid, uid, t)
        \/ ReplyFind(r)
        \/ \E versioned \in BOOLEAN : ReplySave(r, versioned)

FeedNext ==
    \E r \in Reqs :
        \/ \E hasFile \in BOOLEAN, d \in Durations, c \in CaptionLens,
              tags \in TagInputs :
               CreatePostStart(r, MaxFeedRequests, 1, hasFile, d, c, tags)
        \/ \E tick \in {0, 1} : CreatePostCreate(r, tick)
        \/ \E page \in PageInputs, limit \in LimitInputs, hashtag \in FilterInputs :
               ListFeedStart(r, MaxFeedRequests, page, limit, hashtag)
        \/ \E order \in FeedOrders(Matching(creq[r].hashtag)) : ListFeedFind(r, order)

Init == AInit /\ CInit

Spec == Init /\ [][ContentNext]_vars

SpecFeed == Init /\ [][FeedNext]_vars

SpecAccounts == Init /\ [][AccountNext]_vars

SpecAccountsSeq == Init /\ [][AccountNextSeq]_vars

(***************************************************************************)
(* Properties                                                              *)
(***************************************************************************)
LikeDone(r) == creq[r].op = "like" /\ creq[r].pc = "done" /\ creq[r].resp.status = 200

\* C1: in every reachable state a post's likes hold each user identifier at
\* most once, whatever the interleaving of toggleLike calls.
C1_LikesHoldNoDuplicate == \A p \in DOMAIN posts : NoDup(posts[p].likes)

\* C2: there is no reachable state in which one side of a follow relation
\* between two users is stored without the other: b is in a.following
\* exactly when a is in b.followers.
C2_FollowSidesTogether ==
    \A a, b \in DOMAIN users :
        a # b => (Some(users[a].following, b) <=> Some(users[b].followers, a))

\* C3: in every reachable state no user is in its own followers or in its
\* own following.
C3_NoSelfFollow ==
    \A u \in DOMAIN users :
        ~Some(users[u].followers, u) /\ ~Some(users[u].following, u)

\* C4: when toggleFollow calls run one after another, then between two
\* calls the number of entries of target.followers is the number of users
\* whose following holds target, and self is in target.followers exactly
\* when target is in self.following.
C4_FollowersMatchFollowing ==
    (\A r \in Reqs : AFree(r)) =>
        \A t \in DOMAIN users :
            /\ Len(users[t].followers) =
                   Cardinality({a \in DOMAIN users : Some(users[a].following, t)})
            /\ \A a \in DOMAIN users :
                   Some(users[t].followers, a) <=> Some(users[a].following, t)

\* C5: for every stored post and every user, two toggleLike calls run one
\* after the other with nothing in between give back the likes' membership
\* and count; on a post the user has not liked the first call adds exactly
\* the user.
C5_ToggleLikeTwiceRestores ==
    \A p \in DOMAIN posts : \A u \in UserIds :
        LET once == ToggleLikeAlone(posts[p], u)
            twice == ToggleLikeAlone(once, u)
        IN /\ Len(twice.likes) = Len(posts[p].likes)
           /\ \A w \in UserIds : Some(twice.likes, w) <=> Some(posts[p].likes, w)
           /\ ~Some(posts[p].likes, u) =>
                  /\ Some(once.likes, u)
                  /\ Len(once.likes) = Len(posts[p].likes) + 1
                  /\ Len(twice.likes) = Len(posts[p].likes)

CommentIds(comments) == [i \in DOMAIN comments |-> comments[i].id]

\* The step of request r that stores a comment.
CommentSaved(r) ==
    creq[r].op = "comment" /\ creq[r].pc = "save" /\ creq'[r].pc = "done"
    /\ creq'[r].resp.status = 200

\* The step of request r that stores a reply.
ReplySaved(r) ==
    creq[r].op = "reply" /\ creq[r].pc = "save" /\ creq'[r].pc = "done"
    /\ creq'[r].resp.status = 200

\* The step of request r that looks up the comment of a reply in a stored post.
ReplyLookedUp(r) ==
    creq[r].op = "reply" /\ creq[r].pc = "find" /\ creq'[r].pc # "find"
    /\ creq[r].pid \in DOMAIN posts

C6_Step ==
    \A r \in Reqs :
        /\ CommentSaved(r) =>
               posts'[creq[r].pid].comments =
                   Append(posts[creq[r].pid].comments,
                          [id |-> creq'[r].resp.comment, author |-> creq[r].uid,
                           replies |-> <<>>])
        /\ ReplySaved(r) =>
               LET before == posts[creq[r].pid].comments
                   after == posts'[creq[r].pid].comments
               IN /\ CommentIds(after) = CommentIds(before)
                  /\ \A i \in DOMAIN before :
                         IF before[i].id = creq[r].cid
                         THEN after[i].replies =
                                  Append(before[i].replies, [author |-> creq[r].uid])
                         ELSE after[i] = before[i]
                  /\ \E i \in DOMAIN before : before[i].id = creq[r].cid
        /\ ReplyLookedUp(r) =>
               IF \E i \in DOMAIN posts[creq[r].pid].comments :
                      posts[creq[r].pid].comments[i].id = creq[r].cid
               THEN creq'[r].pc = "save"
               ELSE creq'[r].resp.status = 404 /\ posts' = posts

\* C6: addComment appends exactly one comment with no replies at the end of
\* the post's comments; addReply keeps the comments' number and order,
\* appends one reply to the comment with the given id and leaves every other
\* comment as it was; addReply with an id that is not among the post's
\* comments answers 404 and changes nothing.
C6_CommentAndReplyFrame == [][C6_Step]_vars

\* The step of request r that runs getPost's update.
GetPostRan(r) == creq[r].op = "getPost" /\ creq[r].pc = "update" /\ creq'[r].pc = "done"

C7_Step ==
    /\ \A p \in DOMAIN posts : p \in DOMAIN posts' /\ posts'[p].views >= posts[p].views
    /\ \A r \in Reqs :
           GetPostRan(r) =>
               IF creq[r].pid \in DOMAIN posts
               THEN /\ creq'[r].resp.status = 200
                    /\ posts'[creq[r].pid].views = posts[creq[r].pid].views + 1
                    /\ \A p \in DOMAIN posts :
                           p # creq[r].pid => posts'[p].views = posts[p].views
               ELSE creq'[r].resp.status = 404 /\ posts' = posts
    /\ (\A r \in Reqs : ~GetPostRan(r)) =>
           \A p \in DOMAIN posts : posts'[p].views = posts[p].views

C7_ViewsAreServed == \A p \in DOMAIN posts : posts[p].views = served[p]

\* C7: a post's views never decrease and always equal the number of getPost
\* calls answered with that post; each such call adds exactly one, no step
\* of another handler changes the counter, and getPost on an absent id
\* answers 404 and changes nothing.
C7_ViewsCountGetPosts == [](C7_ViewsAreServed) /\ [][C7_Step]_vars

\* The step of request r that stores a toggled like and answers 200.
LikeSaved(r) ==
    creq[r].op = "like" /\ creq[r].pc = "save" /\ creq'[r].pc = "done"
    /\ creq'[r].resp.status = 200

Count(arr, id) == Cardinality({i \in DOMAIN arr : arr[i] = id})

C10_Step ==
    \A r \in Reqs :
        LikeSaved(r) =>
            /\ \A w \in UserIds \ {creq[r].uid} :
                   Count(posts'[creq[r].pid].likes, w) = Count(posts[creq[r].pid].likes, w)
            /\ \A p \in DOMAIN posts : p # creq[r].pid => posts'[p] = posts[p]

\* C10: a toggleLike by u that answers 200 changes only u's entries in that
\* post's likes: every other user's entries are the stored ones, also when
\* another user's toggle was stored after this call read the post.
C10_LikeTouchesOnlyCaller == [][C10_Step]_vars

\* C8: a register call whose username and email pass the validation ends
\* with the user created or with 400 "already in use", and no two stored
\* users share a username or an email up to letter case.
C8_RegisterConflictOrCreate ==
    /\ \A r \in Reqs :
           (areq[r].op = "register" /\ areq[r].pc = "done"
            /\ IsLengthMin(areq[r].username, UsernameMinLength)
            /\ IsLengthMin(CastUsername(areq[r].username), UsernameMinLength))
           => areq[r].resp.status \in {200, 400}
    /\ \A i, j \in DOMAIN users :
           (users[i].username = users[j].username
            \/ Lower(users[i].email) = Lower(users[j].email)) => i = j

FeedDone(r) == creq[r].op = "listFeed" /\ creq[r].pc = "done" /\ creq[r].resp.status = 200

\* C9: listFeed answers at most `limit` posts, the limit never above 50, all
\* matching the filter, newest first, after page*limit skipped ones; page 0
\* and page 1 of the same query over the same posts are disjoint and
\* together are the first 2*limit matching posts.
C9_FeedPages ==
    /\ \A r \in Reqs :
           FeedDone(r) =>
               LET q == creq[r].resp
               IN /\ q.limit <= LimitCap
                  /\ Len(q.posts) <= q.limit
                  /\ \A i \in DOMAIN q.posts : Matches(posts[q.posts[i]], creq[r].hashtag)
                  /\ \A i, j \in DOMAIN q.posts :
                         i < j => posts[q.posts[i]].createdAt >= posts[q.posts[j]].createdAt
    /\ \A r1, r2 \in Reqs :
           (FeedDone(r1) /\ FeedDone(r2)
            /\ creq[r1].resp.page = 0 /\ creq[r2].resp.page = 1
            /\ creq[r1].resp.limit = creq[r2].resp.limit
            /\ creq[r1].hashtag = creq[r2].hashtag
            /\ creq[r1].resp.at = creq[r2].resp.at)
           => LET a == Range(creq[r1].resp.posts)
                  b == Range(creq[r2].resp.posts)
                  all == {p \in 1..creq[r1].resp.at : Matches(posts[p], creq[r1].hashtag)}
              IN /\ a \cap b = {}
                 /\ Cardinality(a \cup b) =
                        Min2(2 * creq[r1].resp.limit, Cardinality(all))

(***************************************************************************)
(* Reachable cases                                                         *)
(***************************************************************************)
\* A reply stored on the second of two comments, the first left without one.
C6_Witness ==
    \E r \in Reqs :
        /\ creq[r].op = "reply" /\ creq[r].pc = "done" /\ creq[r].resp.status = 200
        /\ Len(posts[creq[r].pid].comments) = 2
        /\ posts[creq[r].pid].comments[2].id = creq[r].cid
        /\ Len(posts[creq[r].pid].comments[2].replies) = 1
        /\ posts[creq[r].pid].comments[1].replies = <<>>

\* A post served once by getPost while a like that was read before is saved
\* after it.
C7_Witness ==
    \E r1, r2 \in Reqs :
        /\ creq[r1].op = "getPost" /\ creq[r1].pc = "done" /\ creq[r1].resp.status = 200
        /\ LikeDone(r2) /\ creq[r2].pid = creq[r1].pid
        /\ posts[creq[r1].pid].views = 1
        /\ posts[creq[r1].pid].likes # <<>>

\* Two users' likes of one post, both read from the post without likes, both
\* stored.
C10_Witness ==
    \E r1, r2 \in Reqs :
        /\ LikeDone(r1) /\ LikeDone(r2)
        /\ creq[r1].pid = creq[r2].pid /\ creq[r1].uid # creq[r2].uid
        /\ creq[r1].resp.likesCount = 1 /\ creq[r2].resp.likesCount = 1
        /\ Len(posts[creq[r1].pid].likes) = 2
====
